---- MODULE Spec2Model ----
(***************************************************************************)
(* A model of WorkDocStyler (src/main.py): the /format request handler,    *)
(* its line classifier, paragraph styler and colour resolver.              *)
(*                                                                         *)
(* Representation.                                                         *)
(*   - A Python str is a sequence of characters.  A character is a         *)
(*     one-character TLA+ string; a character with no printable ASCII form *)
(*     is named: BOM (U+FEFF), BULLET (U+2022), NBSP (U+00A0), and by its  *)
(*     code point otherwise ("U+3000", "U+001F", "U+0663").                *)
(*   - A JSON / Python value whose type the code inspects is a record      *)
(*     with a "type" field: [type |-> "dict", items |-> f],                *)
(*     [type |-> "str", chars |-> s], [type |-> "int", val |-> n],         *)
(*     [type |-> "list", elems |-> s], [type |-> "null"].                  *)
(*   - A decimal number (points, centimetres, line spacing) is held in     *)
(*     hundredths: 10.5 pt is 1050, 1.27 cm is 127.                        *)
(*   - An optional attribute of a paragraph or run is <<>> while unset     *)
(*     (None) and <<v>> once set to v.                                     *)
(***************************************************************************)
EXTENDS Integers, Sequences, FiniteSets, TLC

VARIABLES
    pc,              \* position of the request: "request", "reading", "building", "done",
                     \* "rejected", "unreadable", "failed"
    draft,           \* the uploaded file: [ext, data] for a text file, [ext, opens,
                     \* paragraphs] for a document, [ext] for any other
    style_map_json,  \* the optional form field
    rules,           \* the active rule table
    lines,           \* the decoded input lines
    idx,             \* number of lines the builder loop has completed
    out_doc,         \* the output document: its sequence of paragraphs
    counters,        \* usage counters: style name -> count
    report,          \* the X-Delta-Report header of the response
    arg,             \* argument of a direct call of a helper
    result           \* what that call returned

vars == <<pc, draft, style_map_json, rules, lines, idx, out_doc, counters, report, arg, result>>

-----------------------------------------------------------------------------
(* Characters and Python's str methods                                     *)

BOM == "BOM"
BULLET == "BULLET"
NBSP == "NBSP"

\* Every character of Unicode category Nd, in runs of ten from the zero of each
\* script up; a character outside ASCII is named by its code point.  These are
\* what \d matches in a str pattern and what int() reads as a decimal digit.
DecimalDigitRuns ==
    << <<"0", "1", "2", "3", "4", "5", "6", "7", "8", "9">>,
       <<"U+0660", "U+0661", "U+0662", "U+0663", "U+0664", "U+0665", "U+0666", "U+0667", "U+0668", "U+0669">>,
       <<"U+06F0", "U+06F1", "U+06F2", "U+06F3", "U+06F4", "U+06F5", "U+06F6", "U+06F7", "U+06F8", "U+06F9">>,
       <<"U+07C0", "U+07C1", "U+07C2", "U+07C3", "U+07C4", "U+07C5", "U+07C6", "U+07C7", "U+07C8", "U+07C9">>,
       <<"U+0966", "U+0967", "U+0968", "U+0969", "U+096A", "U+096B", "U+096C", "U+096D", "U+096E", "U+096F">>,
       <<"U+09E6", "U+09E7", "U+09E8", "U+09E9", "U+09EA", "U+09EB", "U+09EC", "U+09ED", "U+09EE", "U+09EF">>,
       <<"U+0A66", "U+0A67", "U+0A68", "U+0A69", "U+0A6A", "U+0A6B", "U+0A6C", "U+0A6D", "U+0A6E", "U+0A6F">>,
       <<"U+0AE6", "U+0AE7", "U+0AE8", "U+0AE9", "U+0AEA", "U+0AEB", "U+0AEC", "U+0AED", "U+0AEE", "U+0AEF">>,
       <<"U+0B66", "U+0B67", "U+0B68", "U+0B69", "U+0B6A", "U+0B6B", "U+0B6C", "U+0B6D", "U+0B6E", "U+0B6F">>,
       <<"U+0BE6", "U+0BE7", "U+0BE8", "U+0BE9", "U+0BEA", "U+0BEB", "U+0BEC", "U+0BED", "U+0BEE", "U+0BEF">>,
       <<"U+0C66", "U+0C67", "U+0C68", "U+0C69", "U+0C6A", "U+0C6B", "U+0C6C", "U+0C6D", "U+0C6E", "U+0C6F">>,
       <<"U+0CE6", "U+0CE7", "U+0CE8", "U+0CE9", "U+0CEA", "U+0CEB", "U+0CEC", "U+0CED", "U+0CEE", "U+0CEF">>,
       <<"U+0D66", "U+0D67", "U+0D68", "U+0D69", "U+0D6A", "U+0D6B", "U+0D6C", "U+0D6D", "U+0D6E", "U+0D6F">>,
       <<"U+0DE6", "U+0DE7", "U+0DE8", "U+0DE9", "U+0DEA", "U+0DEB", "U+0DEC", "U+0DED", "U+0DEE", "U+0DEF">>,
       <<"U+0E50", "U+0E51", "U+0E52", "U+0E53", "U+0E54", "U+0E55", "U+0E56", "U+0E57", "U+0E58", "U+0E59">>,
       <<"U+0ED0", "U+0ED1", "U+0ED2", "U+0ED3", "U+0ED4", "U+0ED5", "U+0ED6", "U+0ED7", "U+0ED8", "U+0ED9">>,
       <<"U+0F20", "U+0F21", "U+0F22", "U+0F23", "U+0F24", "U+0F25", "U+0F26", "U+0F27", "U+0F28", "U+0F29">>,
       <<"U+1040", "U+1041", "U+1042", "U+1043", "U+1044", "U+1045", "U+1046", "U+1047", "U+1048", "U+1049">>,
       <<"U+1090", "U+1091", "U+1092", "U+1093", "U+1094", "U+1095", "U+1096", "U+1097", "U+1098", "U+1099">>,
       <<"U+17E0", "U+17E1", "U+17E2", "U+17E3", "U+17E4", "U+17E5", "U+17E6", "U+17E7", "U+17E8", "U+17E9">>,
       <<"U+1810", "U+1811", "U+1812", "U+1813", "U+1814", "U+1815", "U+1816", "U+1817", "U+1818", "U+1819">>,
       <<"U+1946", "U+1947", "U+1948", "U+1949", "U+194A", "U+194B", "U+194C", "U+194D", "U+194E", "U+194F">>,
       <<"U+19D0", "U+19D1", "U+19D2", "U+19D3", "U+19D4", "U+19D5", "U+19D6", "U+19D7", "U+19D8", "U+19D9">>,
       <<"U+1A80", "U+1A81", "U+1A82", "U+1A83", "U+1A84", "U+1A85", "U+1A86", "U+1A87", "U+1A88", "U+1A89">>,
       <<"U+1A90", "U+1A91", "U+1A92", "U+1A93", "U+1A94", "U+1A95", "U+1A96", "U+1A97", "U+1A98", "U+1A99">>,
       <<"U+1B50", "U+1B51", "U+1B52", "U+1B53", "U+1B54", "U+1B55", "U+1B56", "U+1B57", "U+1B58", "U+1B59">>,
       <<"U+1BB0", "U+1BB1", "U+1BB2", "U+1BB3", "U+1BB4", "U+1BB5", "U+1BB6", "U+1BB7", "U+1BB8", "U+1BB9">>,
       <<"U+1C40", "U+1C41", "U+1C42", "U+1C43", "U+1C44", "U+1C45", "U+1C46", "U+1C47", "U+1C48", "U+1C49">>,
       <<"U+1C50", "U+1C51", "U+1C52", "U+1C53", "U+1C54", "U+1C55", "U+1C56", "U+1C57", "U+1C58", "U+1C59">>,
       <<"U+A620", "U+A621", "U+A622", "U+A623", "U+A624", "U+A625", "U+A626", "U+A627", "U+A628", "U+A629">>,
       <<"U+A8D0", "U+A8D1", "U+A8D2", "U+A8D3", "U+A8D4", "U+A8D5", "U+A8D6", "U+A8D7", "U+A8D8", "U+A8D9">>,
       <<"U+A900", "U+A901", "U+A902", "U+A903", "U+A904", "U+A905", "U+A906", "U+A907", "U+A908", "U+A909">>,
       <<"U+A9D0", "U+A9D1", "U+A9D2", "U+A9D3", "U+A9D4", "U+A9D5", "U+A9D6", "U+A9D7", "U+A9D8", "U+A9D9">>,
       <<"U+A9F0", "U+A9F1", "U+A9F2", "U+A9F3", "U+A9F4", "U+A9F5", "U+A9F6", "U+A9F7", "U+A9F8", "U+A9F9">>,
       <<"U+AA50", "U+AA51", "U+AA52", "U+AA53", "U+AA54", "U+AA55", "U+AA56", "U+AA57", "U+AA58", "U+AA59">>,
       <<"U+ABF0", "U+ABF1", "U+ABF2", "U+ABF3", "U+ABF4", "U+ABF5", "U+ABF6", "U+ABF7", "U+ABF8", "U+ABF9">>,
       <<"U+FF10", "U+FF11", "U+FF12", "U+FF13", "U+FF14", "U+FF15", "U+FF16", "U+FF17", "U+FF18", "U+FF19">>,
       <<"U+104A0", "U+104A1", "U+104A2", "U+104A3", "U+104A4", "U+104A5", "U+104A6", "U+104A7", "U+104A8", "U+104A9">>,
       <<"U+10D30", "U+10D31", "U+10D32", "U+10D33", "U+10D34", "U+10D35", "U+10D36", "U+10D37", "U+10D38", "U+10D39">>,
       <<"U+11066", "U+11067", "U+11068", "U+11069", "U+1106A", "U+1106B", "U+1106C", "U+1106D", "U+1106E", "U+1106F">>,
       <<"U+110F0", "U+110F1", "U+110F2", "U+110F3", "U+110F4", "U+110F5", "U+110F6", "U+110F7", "U+110F8", "U+110F9">>,
       <<"U+11136", "U+11137", "U+11138", "U+11139", "U+1113A", "U+1113B", "U+1113C", "U+1113D", "U+1113E", "U+1113F">>,
       <<"U+111D0", "U+111D1", "U+111D2", "U+111D3", "U+111D4", "U+111D5", "U+111D6", "U+111D7", "U+111D8", "U+111D9">>,
       <<"U+112F0", "U+112F1", "U+112F2", "U+112F3", "U+112F4", "U+112F5", "U+112F6", "U+112F7", "U+112F8", "U+112F9">>,
       <<"U+11450", "U+11451", "U+11452", "U+11453", "U+11454", "U+11455", "U+11456", "U+11457", "U+11458", "U+11459">>,
       <<"U+114D0", "U+114D1", "U+114D2", "U+114D3", "U+114D4", "U+114D5", "U+114D6", "U+114D7", "U+114D8", "U+114D9">>,
       <<"U+11650", "U+11651", "U+11652", "U+11653", "U+11654", "U+11655", "U+11656", "U+11657", "U+11658", "U+11659">>,
       <<"U+116C0", "U+116C1", "U+116C2", "U+116C3", "U+116C4", "U+116C5", "U+116C6", "U+116C7", "U+116C8", "U+116C9">>,
       <<"U+11730", "U+11731", "U+11732", "U+11733", "U+11734", "U+11735", "U+11736", "U+11737", "U+11738", "U+11739">>,
       <<"U+118E0", "U+118E1", "U+118E2", "U+118E3", "U+118E4", "U+118E5", "U+118E6", "U+118E7", "U+118E8", "U+118E9">>,
       <<"U+11950", "U+11951", "U+11952", "U+11953", "U+11954", "U+11955", "U+11956", "U+11957", "U+11958", "U+11959">>,
       <<"U+11C50", "U+11C51", "U+11C52", "U+11C53", "U+11C54", "U+11C55", "U+11C56", "U+11C57", "U+11C58", "U+11C59">>,
       <<"U+11D50", "U+11D51", "U+11D52", "U+11D53", "U+11D54", "U+11D55", "U+11D56", "U+11D57", "U+11D58", "U+11D59">>,
       <<"U+11DA0", "U+11DA1", "U+11DA2", "U+11DA3", "U+11DA4", "U+11DA5", "U+11DA6", "U+11DA7", "U+11DA8", "U+11DA9">>,
       <<"U+16A60", "U+16A61", "U+16A62", "U+16A63", "U+16A64", "U+16A65", "U+16A66", "U+16A67", "U+16A68", "U+16A69">>,
       <<"U+16AC0", "U+16AC1", "U+16AC2", "U+16AC3", "U+16AC4", "U+16AC5", "U+16AC6", "U+16AC7", "U+16AC8", "U+16AC9">>,
       <<"U+16B50", "U+16B51", "U+16B52", "U+16B53", "U+16B54", "U+16B55", "U+16B56", "U+16B57", "U+16B58", "U+16B59">>,
       <<"U+1D7CE", "U+1D7CF", "U+1D7D0", "U+1D7D1", "U+1D7D2", "U+1D7D3", "U+1D7D4", "U+1D7D5", "U+1D7D6", "U+1D7D7">>,
       <<"U+1D7D8", "U+1D7D9", "U+1D7DA", "U+1D7DB", "U+1D7DC", "U+1D7DD", "U+1D7DE", "U+1D7DF", "U+1D7E0", "U+1D7E1">>,
       <<"U+1D7E2", "U+1D7E3", "U+1D7E4", "U+1D7E5", "U+1D7E6", "U+1D7E7", "U+1D7E8", "U+1D7E9", "U+1D7EA", "U+1D7EB">>,
       <<"U+1D7EC", "U+1D7ED", "U+1D7EE", "U+1D7EF", "U+1D7F0", "U+1D7F1", "U+1D7F2", "U+1D7F3", "U+1D7F4", "U+1D7F5">>,
       <<"U+1D7F6", "U+1D7F7", "U+1D7F8", "U+1D7F9", "U+1D7FA", "U+1D7FB", "U+1D7FC", "U+1D7FD", "U+1D7FE", "U+1D7FF">>,
       <<"U+1E140", "U+1E141", "U+1E142", "U+1E143", "U+1E144", "U+1E145", "U+1E146", "U+1E147", "U+1E148", "U+1E149">>,
       <<"U+1E2F0", "U+1E2F1", "U+1E2F2", "U+1E2F3", "U+1E2F4", "U+1E2F5", "U+1E2F6", "U+1E2F7", "U+1E2F8", "U+1E2F9">>,
       <<"U+1E950", "U+1E951", "U+1E952", "U+1E953", "U+1E954", "U+1E955", "U+1E956", "U+1E957", "U+1E958", "U+1E959">>,
       <<"U+1FBF0", "U+1FBF1", "U+1FBF2", "U+1FBF3", "U+1FBF4", "U+1FBF5", "U+1FBF6", "U+1FBF7", "U+1FBF8", "U+1FBF9">> >>

AsciiDigits == DecimalDigitRuns[1]

Digits == {DecimalDigitRuns[r][n] : r \in 1..Len(DecimalDigitRuns), n \in 1..10}

\* unicodedata.digit(c)
DecimalValue(c) ==
    CHOOSE n \in 0..9 : \E r \in 1..Len(DecimalDigitRuns) : DecimalDigitRuns[r][n + 1] = c

LowerLetters == <<"a", "b", "c", "d", "e", "f", "g", "h", "i", "j", "k", "l", "m",
                  "n", "o", "p", "q", "r", "s", "t", "u", "v", "w", "x", "y", "z">>
UpperLetters == <<"A", "B", "C", "D", "E", "F", "G", "H", "I", "J", "K", "L", "M",
                  "N", "O", "P", "Q", "R", "S", "T", "U", "V", "W", "X", "Y", "Z">>
Letters == {LowerLetters[i] : i \in 1..26} \cup {UpperLetters[i] : i \in 1..26}

\* str.isspace(): what str.strip() removes and what \s matches in a str pattern
Whitespace ==
    { "\t", "\n", "U+000B", "\f", "\r", "U+001C", "U+001D", "U+001E", "U+001F", " ",
      "U+0085", NBSP, "U+1680", "U+2000", "U+2001", "U+2002", "U+2003", "U+2004", "U+2005",
      "U+2006", "U+2007", "U+2008", "U+2009", "U+200A", "U+2028", "U+2029", "U+202F",
      "U+205F", "U+3000" }

\* The blanks int() skips around a number: of the ASCII characters only those
\* of C's isspace (not U+001C..U+001F), and every blank outside ASCII
IntWhitespace == Whitespace \ {"U+001C", "U+001D", "U+001E", "U+001F"}

EmptyMap == [k \in {} |-> TRUE]

startswith(text, pref) ==
    /\ Len(text) >= Len(pref)
    /\ SubSeq(text, 1, Len(pref)) = pref

\* text[n:]
DropFirst(text, n) == IF n >= Len(text) THEN <<>> ELSE SubSeq(text, n + 1, Len(text))

RECURSIVE rstrip(_, _)
rstrip(text, chars) ==
    IF text # <<>> /\ text[Len(text)] \in chars
    THEN rstrip(SubSeq(text, 1, Len(text) - 1), chars)
    ELSE text

RECURSIVE lstrip(_, _)
lstrip(text, chars) ==
    IF text # <<>> /\ text[1] \in chars
    THEN lstrip(Tail(text), chars)
    ELSE text

\* str.strip()
strip(text) == rstrip(lstrip(text, Whitespace), Whitespace)

upperChar(c) ==
    IF \E i \in 1..26 : LowerLetters[i] = c
    THEN UpperLetters[CHOOSE i \in 1..26 : LowerLetters[i] = c]
    ELSE c

\* str.upper()
upper(text) == [i \in 1..Len(text) |-> upperChar(text[i])]

\* str.split(sep) for a one-character separator
RECURSIVE split(_, _)
split(text, sep) ==
    IF \E i \in 1..Len(text) : text[i] = sep
    THEN LET i == CHOOSE k \in 1..Len(text) :
                     text[k] = sep /\ \A j \in 1..(k - 1) : text[j] # sep
         IN  <<SubSeq(text, 1, i - 1)>> \o split(DropFirst(text, i), sep)
    ELSE <<text>>

-----------------------------------------------------------------------------
(* Colour resolver: _rgb and the built-ins it calls                        *)

PyStr(s) == [type |-> "str", chars |-> s]
PyInt(n) == [type |-> "int", val |-> n]
PyNone == [type |-> "null"]
PyList(elems) == [type |-> "list", elems |-> elems]
PyDict(f) == [type |-> "dict", items |-> f]

HexLetters == <<"a", "b", "c", "d", "e", "f">>
HexUpper == <<"A", "B", "C", "D", "E", "F">>

IsDigitIn(c, base) ==
    \/ c \in Digits
    \/ base = 16 /\ \E i \in 1..6 : c = HexLetters[i] \/ c = HexUpper[i]

DigitVal(c) ==
    IF c \in Digits
    THEN DecimalValue(c)
    ELSE 9 + (CHOOSE i \in 1..6 : c = HexLetters[i] \/ c = HexUpper[i])

RECURSIVE DigitsValue(_, _)
DigitsValue(ds, base) ==
    IF ds = <<>> THEN 0
    ELSE DigitsValue(SubSeq(ds, 1, Len(ds) - 1), base) * base + DigitVal(ds[Len(ds)])

\* int(s, base) for base 10 and 16: surrounding blanks, an optional sign, for
\* base 16 an optional 0x, then digits, single underscores allowed between
\* digits (and after the 0x).  A decimal digit of any script counts as its
\* ASCII digit, in the 0 of the 0x too.  [ok |-> FALSE] is ValueError.
ValidDigits(w, base) ==
    /\ w # <<>>
    /\ w[1] # "_" /\ w[Len(w)] # "_"
    /\ \A i \in 1..Len(w) :
          \/ IsDigitIn(w[i], base)
          \/ w[i] = "_" /\ w[i - 1] # "_"

IntDigits(w, base) ==
    IF ValidDigits(w, base)
    THEN [ok |-> TRUE, val |-> DigitsValue(SelectSeq(w, LAMBDA c : c # "_"), base)]
    ELSE [ok |-> FALSE, val |-> 0]

HasBasePrefix(u, base) ==
    /\ base = 16 /\ Len(u) >= 2
    /\ u[1] \in Digits /\ DecimalValue(u[1]) = 0
    /\ u[2] \in {"x", "X"}

IntUnsigned(u, base) ==
    IF HasBasePrefix(u, base)
    THEN IntDigits(IF Len(u) >= 3 /\ u[3] = "_" THEN DropFirst(u, 3) ELSE DropFirst(u, 2), base)
    ELSE IntDigits(u, base)

Negated(r) == [ok |-> r.ok, val |-> -r.val]

IntSigned(t, base) ==
    IF t # <<>> /\ t[1] = "-" THEN Negated(IntUnsigned(Tail(t), base))
    ELSE IF t # <<>> /\ t[1] = "+" THEN IntUnsigned(Tail(t), base)
    ELSE IntUnsigned(t, base)

IntParse(s, base) == IntSigned(rstrip(lstrip(s, IntWhitespace), IntWhitespace), base)

Returned(v) == [raised |-> FALSE, value |-> v]
Raised == [raised |-> TRUE, value |-> <<>>]

\* docx.shared.RGBColor(r, g, b): ValueError unless each is in 0..255
RGBColor(r, g, b) ==
    IF r \in 0..255 /\ g \in 0..255 /\ b \in 0..255
    THEN Returned(<<r, g, b>>)
    ELSE Raised

\* RGBColor of three parsed integers; a failed parse is the ValueError of int()
RGBFromInts(r, g, b) ==
    IF r.ok /\ g.ok /\ b.ok THEN RGBColor(r.val, g.val, b.val) ELSE Raised

Black == Returned(<<0, 0, 0>>)

\* lines 73-78: whatever the try block raises is swallowed, and black returned
ExceptPass(attempt) == IF attempt.raised THEN Black ELSE attempt

\* line 74: r,g,b = [int(x.strip()) for x in parts] needs exactly three parts
UnpackThree(parts) ==
    IF Len(parts) = 3
    THEN RGBFromInts(IntParse(strip(parts[1]), 10), IntParse(strip(parts[2]), 10),
                     IntParse(strip(parts[3]), 10))
    ELSE Raised

\* lines 72-78: color_str[4:-1] split on ",", parsed under try/except
_rgb_components(cs) == ExceptPass(UnpackThree(split(SubSeq(cs, 5, Len(cs) - 1), ",")))

\* lines 69-70: "#" and length 7: three base-16 pairs, nothing caught
_rgb_hex(cs) ==
    RGBFromInts(IntParse(SubSeq(cs, 2, 3), 16), IntParse(SubSeq(cs, 4, 5), 16),
                IntParse(SubSeq(cs, 6, 7), 16))

_rgb(color_str) ==
    IF color_str.type = "str" /\ startswith(color_str.chars, <<"#">>) /\ Len(color_str.chars) = 7
    THEN _rgb_hex(color_str.chars)
    ELSE IF color_str.type = "str" /\ startswith(upper(color_str.chars), <<"R", "G", "B", "(">>)
    THEN _rgb_components(color_str.chars)
    ELSE Black

-----------------------------------------------------------------------------
(* Paragraph styler: _apply_paragraph_style                                *)

\* docx.shared.Pt and Cm: a length in EMU, int(pt * 12700) and int(cm * 360000).
\* The product is a float and int() truncates it: for the decimals listed here
\* (hundredths, of the values 0.00 to 30.00) it falls just short of the exact
\* product and the length is one EMU less.
PtTruncated ==
    { 29, 57, 58, 113, 114, 115, 116, 201, 203, 205, 207, 226, 228, 230, 232, 251, 253,
      255, 257, 402, 406, 410, 414, 427, 431, 435, 439, 452, 456, 460, 464, 477, 481, 485,
      489, 502, 506, 510, 514, 803, 804, 812, 820, 828, 829, 837, 845, 853, 854, 862, 870,
      878, 879, 887, 895, 903, 904, 912, 920, 928, 929, 937, 945, 953, 954, 962, 970, 978,
      979, 987, 995, 1003, 1004, 1012, 1020, 1028, 1029, 1606, 1608, 1615, 1624, 1631,
      1633, 1640, 1649, 1656, 1658, 1665, 1674, 1681, 1683, 1690, 1699, 1706, 1708, 1715,
      1724, 1731, 1733, 1740, 1749, 1756, 1758, 1765, 1774, 1781, 1783, 1790, 1799, 1806,
      1808, 1815, 1824, 1831, 1833, 1840, 1849, 1856, 1858, 1865, 1874, 1881, 1883, 1890,
      1899, 1906, 1908, 1915, 1924, 1931, 1933, 1940, 1949, 1956, 1958, 1965, 1974, 1981,
      1983, 1990, 1999, 2006, 2008, 2015, 2024, 2031, 2033, 2040, 2049, 2056, 2058 }

CmTruncated ==
    { 35, 57, 69, 70, 113, 114, 115, 138, 139, 140, 201, 203, 205, 226, 228, 230, 251, 253,
      255, 276, 278, 280, 402, 406, 410, 427, 431, 435, 452, 456, 460, 477, 481, 485, 502,
      506, 510, 527, 531, 535, 552, 556, 560, 577, 581, 804, 812, 820, 829, 837, 845, 854,
      862, 870, 879, 887, 895, 904, 912, 920, 929, 937, 945, 954, 962, 970, 979, 987, 995,
      1004, 1012, 1020, 1029, 1037, 1045, 1054, 1062, 1070, 1079, 1087, 1095, 1104, 1112,
      1120, 1129, 1137, 1145, 1154, 1162, 1608, 1615, 1624, 1633, 1640, 1649, 1658, 1665,
      1674, 1683, 1690, 1699, 1708, 1715, 1724, 1733, 1740, 1749, 1758, 1765, 1774, 1783,
      1790, 1799, 1808, 1815, 1824, 1833, 1840, 1849, 1858, 1865, 1874, 1883, 1890, 1899,
      1908, 1915, 1924, 1933, 1940, 1949, 1958, 1965, 1974, 1983, 1990, 1999, 2008, 2015,
      2024, 2033, 2040, 2049, 2058, 2065, 2074, 2083, 2090, 2099, 2108, 2115, 2124, 2133,
      2140, 2149, 2158, 2165, 2174, 2183, 2190, 2199, 2208, 2215, 2224, 2233, 2240, 2249,
      2258, 2265, 2274, 2283, 2290, 2299, 2308, 2315, 2324 }

Pt(hundredths) == hundredths * 127 - (IF hundredths \in PtTruncated THEN 1 ELSE 0)
Cm(hundredths) == hundredths * 3600 - (IF hundredths \in CmTruncated THEN 1 ELSE 0)

\* Paragraph.add_run(text): a run with no font attribute set
NewRun(text) ==
    [text |-> text, name |-> <<>>, size |-> <<>>, bold |-> <<>>, italic |-> <<>>, color |-> <<>>]

\* Document.add_paragraph(text): no run is made for an empty text
NewParagraph(text) ==
    [text |-> text,
     alignment |-> <<>>, line_spacing |-> <<>>, space_before |-> <<>>, space_after |-> <<>>,
     left_indent |-> <<>>, first_line_indent |-> <<>>,
     keep_with_next |-> <<>>, keep_together |-> <<>>,
     runs |-> IF text = <<>> THEN <<>> ELSE <<NewRun(text)>>]

align_map == [Left |-> "LEFT", Center |-> "CENTER", Right |-> "RIGHT", Justify |-> "JUSTIFY"]

has(spec, key) == key \in DOMAIN spec

\* spec.get(key) is truthy (the flag is a boolean when present)
truthy(spec, key) == has(spec, key) /\ spec[key] = TRUE

\* Mutant: the keep flags are assigned bool(spec.get(...)) instead of only set
apply_paragraph_format_assigning_keep(p, spec) ==
    [p EXCEPT
        !.alignment = IF has(spec, "alignment") /\ spec["alignment"] \in DOMAIN align_map
                      THEN <<align_map[spec["alignment"]]>> ELSE @,
        !.line_spacing = IF has(spec, "line_spacing") THEN <<spec["line_spacing"]>> ELSE @,
        !.space_before = IF has(spec, "spacing_before_pt") THEN <<Pt(spec["spacing_before_pt"])>> ELSE @,
        !.space_after = IF has(spec, "spacing_after_pt") THEN <<Pt(spec["spacing_after_pt"])>> ELSE @,
        !.left_indent = IF has(spec, "indent_left_cm") THEN <<Cm(spec["indent_left_cm"])>> ELSE @,
        !.first_line_indent = IF has(spec, "indent_hanging_cm") THEN <<-Cm(spec["indent_hanging_cm"])>> ELSE @,
        !.keep_with_next = <<truthy(spec, "keep_with_next")>>,
        !.keep_together = <<truthy(spec, "keep_lines_together")>>]

\* lines 83-91: the paragraph-level attributes
apply_paragraph_format(p, spec) ==
    [p EXCEPT
        !.alignment = IF has(spec, "alignment") /\ spec["alignment"] \in DOMAIN align_map
                      THEN <<align_map[spec["alignment"]]>> ELSE @,
        !.line_spacing = IF has(spec, "line_spacing") THEN <<spec["line_spacing"]>> ELSE @,
        !.space_before = IF has(spec, "spacing_before_pt") THEN <<Pt(spec["spacing_before_pt"])>> ELSE @,
        !.space_after = IF has(spec, "spacing_after_pt") THEN <<Pt(spec["spacing_after_pt"])>> ELSE @,
        !.left_indent = IF has(spec, "indent_left_cm") THEN <<Cm(spec["indent_left_cm"])>> ELSE @,
        !.first_line_indent = IF has(spec, "indent_hanging_cm") THEN <<-Cm(spec["indent_hanging_cm"])>> ELSE @,
        !.keep_with_next = IF truthy(spec, "keep_with_next") THEN <<TRUE>> ELSE @,
        !.keep_together = IF truthy(spec, "keep_lines_together") THEN <<TRUE>> ELSE @]

\* lines 95-98: the font attributes set before the colour
SetFont(r, spec) ==
    [r EXCEPT
        !.name = IF has(spec, "font_name") THEN <<spec["font_name"]>> ELSE @,
        !.size = IF has(spec, "font_size_pt") THEN <<Pt(spec["font_size_pt"])>> ELSE @,
        !.bold = IF has(spec, "bold") THEN <<spec["bold"]>> ELSE @,
        !.italic = IF has(spec, "italic") THEN <<spec["italic"]>> ELSE @]

\* line 99: r.font.color.rgb = _rgb(...); nothing is assigned when _rgb raises
SetColor(r, c) ==
    IF c.raised
    THEN [raised |-> TRUE, value |-> r]
    ELSE [raised |-> FALSE, value |-> [r EXCEPT !.color = <<c.value>>]]

\* lines 95-99: the font of one run; the colour is resolved last and may raise
apply_run_font(r, spec) ==
    IF has(spec, "color")
    THEN SetColor(SetFont(r, spec), _rgb(spec["color"]))
    ELSE [raised |-> FALSE, value |-> SetFont(r, spec)]

\* lines 94-99: every run, in order, up to the first one that raises
RECURSIVE apply_runs(_, _)
RECURSIVE ThenRest(_, _, _)
ThenRest(first, rest, spec) ==
    IF first.raised
    THEN [raised |-> TRUE, value |-> <<first.value>> \o rest]
    ELSE [raised |-> apply_runs(rest, spec).raised,
          value |-> <<first.value>> \o apply_runs(rest, spec).value]

apply_runs(runs, spec) ==
    IF runs = <<>>
    THEN [raised |-> FALSE, value |-> <<>>]
    ELSE ThenRest(apply_run_font(Head(runs), spec), Tail(runs), spec)

WithRuns(p, styled) == [raised |-> styled.raised, value |-> [p EXCEPT !.runs = styled.value]]

\* line 93: runs = p.runs or [p.add_run("")]
RunsOrNew(p) == IF p.runs # <<>> THEN p.runs ELSE <<NewRun(<<>>)>>

\* lines 93-99 on the paragraph whose format is already set
StyleRuns(p, spec) == WithRuns(p, apply_runs(RunsOrNew(p), spec))

\* spec is the Python value looked up in the rule table; spec.get on anything
\* but a dict raises AttributeError before the paragraph is touched
_apply_paragraph_style(p, spec) ==
    IF spec.type # "dict"
    THEN [raised |-> TRUE, value |-> p]
    ELSE StyleRuns(apply_paragraph_format(p, spec.items), spec.items)

-----------------------------------------------------------------------------
(* Document builder step and line classifier                               *)

\* What a call leaves behind: the document, the counters, and whether it raised
Outcome(doc, cnt, raised) == [doc |-> doc, counters |-> cnt, raised |-> raised]

\* counters.get(style_name, 0)
CounterGet(cnt, style_name) == IF style_name \in DOMAIN cnt THEN cnt[style_name] ELSE 0

\* Mutant: an existing counter is overwritten with 1 instead of incremented
CounterResetTo1(cnt, style_name) ==
    [k \in DOMAIN cnt \cup {style_name} |-> IF k = style_name THEN 1 ELSE cnt[k]]

\* line 104: counters[style_name] = counters.get(style_name, 0) + 1
CounterIncrement(cnt, style_name) ==
    [k \in DOMAIN cnt \cup {style_name} |->
        IF k = style_name THEN CounterGet(cnt, style_name) + 1 ELSE cnt[k]]

\* Mutant: an empty text adds no paragraph
AppendParagraphSkippingBlank(doc, p) == IF p.text = <<>> THEN doc ELSE Append(doc, p)

\* line 102: the new paragraph goes to the end of the document body
AppendParagraph(doc, p) == Append(doc, p)

\* rules.get(style_name, {})
RulesGet(rules_, style_name) ==
    IF style_name \in DOMAIN rules_.items THEN rules_.items[style_name] ELSE PyDict(EmptyMap)

\* lines 103-104 once the entry is styled: the counter is incremented last
Counted(doc, styled, style_name, cnt) ==
    IF styled.raised
    THEN Outcome(AppendParagraph(doc, styled.value), cnt, TRUE)
    ELSE Outcome(AppendParagraph(doc, styled.value), CounterIncrement(cnt, style_name), FALSE)

\* lines 101-104.  rules.get raises on a rule table that is no dict, after the
\* paragraph was added; so does styling with an entry that is no dict or with
\* a colour that _rgb raises on.
_add_styled_paragraph(doc, text, style_name, rules_, cnt) ==
    IF rules_.type # "dict"
    THEN Outcome(AppendParagraph(doc, NewParagraph(text)), cnt, TRUE)
    ELSE Counted(doc, _apply_paragraph_style(NewParagraph(text), RulesGet(rules_, style_name)),
                 style_name, cnt)

\* lines 108-110
Normalize(line) ==
    LET text == rstrip(line, {"\r", "\n"})
    IN  IF startswith(text, <<BOM>>) THEN DropFirst(text, 1) ELSE text

\* Mutant: the levels of the last two headings are exchanged
heading_markers_swapped ==
    << <<"Heading 1", << <<"H", "1", ":">>, <<"#", " ">> >> >>,
       <<"Heading 2", << <<"H", "2", ":">>, <<"#", "#", " ">> >> >>,
       <<"Heading 4", << <<"H", "3", ":">>, <<"#", "#", "#", " ">> >> >>,
       <<"Heading 3", << <<"H", "4", ":">>, <<"#", "#", "#", "#", " ">> >> >> >>

\* lines 113-118
heading_markers ==
    << <<"Heading 1", << <<"H", "1", ":">>, <<"#", " ">> >> >>,
       <<"Heading 2", << <<"H", "2", ":">>, <<"#", "#", " ">> >> >>,
       <<"Heading 3", << <<"H", "3", ":">>, <<"#", "#", "#", " ">> >> >>,
       <<"Heading 4", << <<"H", "4", ":">>, <<"#", "#", "#", "#", " ">> >> >> >>

\* lines 119-121: the (style, prefix) pairs the text starts with, and the one
\* the nested loops reach first
HeadingHits(text) ==
    {h \in (1..Len(heading_markers)) \X (1..2) :
        startswith(text, heading_markers[h[1]][2][h[2]])}

FirstHit(hits) ==
    CHOOSE h \in hits : \A g \in hits : h[1] < g[1] \/ (h[1] = g[1] /\ h[2] <= g[2])

\* line 127: length of the match of ^(\d+[\.\)]\s|[A-Za-z][\.\)]\s), 0 for none
numbered_re(text) ==
    LET nd == Cardinality({k \in 1..Len(text) : \A j \in 1..k : text[j] \in Digits})
    IN  IF nd >= 1 /\ Len(text) >= nd + 2
           /\ text[nd + 1] \in {".", ")"} /\ text[nd + 2] \in Whitespace
        THEN nd + 2
        ELSE IF Len(text) >= 3 /\ text[1] \in Letters
                /\ text[2] \in {".", ")"} /\ text[3] \in Whitespace
        THEN 3
        ELSE 0

\* line 134
bullet_markers == << <<"-", " ">>, <<"*", " ">>, <<BULLET, " ">> >>

Chars_NormalBullet == <<"N", "o", "r", "m", "a", "l", " ", "B", "u", "l", "l", "e", "t">>

\* needle in hay, for two str
IsSubstring(needle, hay) ==
    \E i \in 0..(Len(hay) - Len(needle)) : SubSeq(hay, i + 1, i + Len(needle)) = needle

\* "Normal Bullet" in rules: a key of a dict, an element of a list, a substring
\* of a str; TypeError on None and on a number
Contains(rules_, key) ==
    IF rules_.type = "dict" THEN Returned(key \in DOMAIN rules_.items)
    ELSE IF rules_.type = "list" THEN Returned(\E i \in 1..Len(rules_.elems) : rules_.elems[i] = key)
    ELSE IF rules_.type = "str" THEN Returned(IsSubstring(Chars_NormalBullet, rules_.chars))
    ELSE Raised

\* Mutant: the fallback style is never chosen
bullet_style_always_normal(rules_) == "Normal Bullet"

\* line 136
bullet_style(rules_) ==
    IF Contains(rules_, "Normal Bullet").value THEN "Normal Bullet" ELSE "List Paragraph Bullet Points"

IsBullet(text) == \E i \in 1..Len(bullet_markers) : startswith(text, bullet_markers[i])

\* lines 122, 129, 135, 141: the text the paragraph gets
CleanHeading(text, hit) == strip(DropFirst(text, Len(heading_markers[hit[1]][2][hit[2]])))

CleanFor(text) ==
    IF HeadingHits(text) # {} THEN CleanHeading(text, FirstHit(HeadingHits(text)))
    ELSE IF numbered_re(text) > 0 THEN strip(DropFirst(text, numbered_re(text)))
    ELSE IF IsBullet(text) THEN strip(DropFirst(text, 2))
    ELSE text

\* lines 123, 130, 136-137, 141: the style name the paragraph is added under
StyleFor(text, rules_) ==
    IF HeadingHits(text) # {} THEN heading_markers[FirstHit(HeadingHits(text))[1]][1]
    ELSE IF numbered_re(text) > 0 THEN "Normal"
    ELSE IF IsBullet(text) THEN bullet_style(rules_)
    ELSE "Normal"

\* lines 112-141 on the normalized text: the membership test of the bullet
\* branch is the one step that can raise before a paragraph is added
DetectNormalized(doc, text, rules_, cnt) ==
    IF HeadingHits(text) = {} /\ numbered_re(text) = 0 /\ IsBullet(text)
       /\ Contains(rules_, "Normal Bullet").raised
    THEN Outcome(doc, cnt, TRUE)
    ELSE _add_styled_paragraph(doc, CleanFor(text), StyleFor(text, rules_), rules_, cnt)

\* lines 106-141
_detect_and_style_line(doc, line, rules_, cnt) ==
    DetectNormalized(doc, Normalize(line), rules_, cnt)

-----------------------------------------------------------------------------
(* The built-in rule table and the request handler format_doc              *)

Chars_0052A3 == <<"#", "0", "0", "5", "2", "A", "3">>
Chars_RGB_1_95_95 == <<"R", "G", "B", "(", "1", ",", "9", "5", ",", "9", "5", ")">>
Chars_Text1 == <<"T", "e", "x", "t", " ", "1">>

\* lines 13-66
DEFAULT_STYLE_MAP ==
    PyDict(
      ("Heading 1" :> PyDict(
          [font_name |-> "Century Gothic", font_size_pt |-> 1400, bold |-> TRUE, italic |-> FALSE,
           color |-> PyStr(Chars_0052A3), alignment |-> "Left", line_spacing |-> 115,
           spacing_before_pt |-> 1200, spacing_after_pt |-> 600, keep_with_next |-> TRUE,
           keep_lines_together |-> TRUE, indent_left_cm |-> 0, indent_hanging_cm |-> 100,
           numbering_level |-> 1, numbering_pattern |-> "%1", based_on |-> "Normal",
           following_style |-> "Normal"]))
      @@
      ("Heading 2" :> PyDict(
          [font_name |-> "Century Gothic", font_size_pt |-> 1200, bold |-> TRUE, italic |-> FALSE,
           color |-> PyStr(Chars_0052A3), alignment |-> "Left", line_spacing |-> 115,
           spacing_before_pt |-> 1200, spacing_after_pt |-> 600, keep_with_next |-> TRUE,
           keep_lines_together |-> TRUE, indent_left_cm |-> 0, indent_hanging_cm |-> 102,
           numbering_level |-> 2, numbering_pattern |-> "%1.%2", based_on |-> "Normal",
           following_style |-> "Normal"]))
      @@
      ("Heading 3" :> PyDict(
          [font_name |-> "Century Gothic", font_size_pt |-> 1100, bold |-> TRUE, italic |-> FALSE,
           color |-> PyStr(Chars_0052A3), alignment |-> "Left", line_spacing |-> 115,
           spacing_before_pt |-> 800, spacing_after_pt |-> 600, keep_with_next |-> TRUE,
           keep_lines_together |-> TRUE, indent_left_cm |-> 0, indent_hanging_cm |-> 127,
           numbering_level |-> 3, numbering_pattern |-> "%1.%2.%3", based_on |-> "Normal",
           following_style |-> "Normal"]))
      @@
      ("Heading 4" :> PyDict(
          [font_name |-> "Century Gothic", font_size_pt |-> 900, bold |-> FALSE, italic |-> FALSE,
           color |-> PyStr(Chars_RGB_1_95_95), alignment |-> "Left", line_spacing |-> 150,
           spacing_before_pt |-> 800, spacing_after_pt |-> 600, keep_with_next |-> TRUE,
           keep_lines_together |-> TRUE, indent_left_cm |-> 0, indent_hanging_cm |-> 152,
           numbering_level |-> 4, numbering_pattern |-> "%1.%2.%3.%4", based_on |-> "Normal",
           following_style |-> "Normal"]))
      @@
      ("Normal" :> PyDict(
          [font_name |-> "Century Gothic", font_size_pt |-> 1000, bold |-> FALSE, italic |-> FALSE,
           color |-> PyStr(Chars_Text1), alignment |-> "Left", line_spacing |-> 100,
           spacing_before_pt |-> 0, spacing_after_pt |-> 600, widow_orphan_control |-> TRUE,
           based_on |-> PyNone, following_style |-> "Normal"]))
      @@
      ("List Paragraph Bullet Points" :> PyDict(
          [font_name |-> "Century Gothic", font_size_pt |-> 1050, bold |-> FALSE, italic |-> FALSE,
           color |-> PyStr(Chars_Text1), alignment |-> "Left", line_spacing |-> 100,
           spacing_before_pt |-> 0, spacing_after_pt |-> 0, indent_left_cm |-> 127,
           spacing_same_paragraphs |-> FALSE, based_on |-> "Normal",
           following_style |-> "List Paragraph Bullet Points"]))
      @@
      ("Normal Bullet" :> PyDict(
          [font_name |-> "Century Gothic", font_size_pt |-> 1000, bold |-> FALSE, italic |-> FALSE,
           color |-> PyStr(Chars_Text1), alignment |-> "Left", line_spacing |-> 108,
           spacing_before_pt |-> 800, spacing_after_pt |-> 800, indent_hanging_cm |-> 63,
           indent_left_cm |-> 127, bullet_level |-> 1, bullet_alignment_cm |-> 63,
           based_on |-> "List Paragraph Bullet Point", following_style |-> "Normal Bullet"])))

\* json.loads on the texts the model submits: the value each one parses to,
\* Raised (JSONDecodeError) for the text that is no JSON
json_loads(text) ==
    CASE text = "{bad" -> Raised
      [] text = "null" -> Returned(PyNone)
      [] text = "5" -> Returned(PyInt(5))
      [] text = "\"abc\"" -> Returned(PyStr(<<"a", "b", "c">>))
      [] text = "\"a Normal Bullet\"" -> Returned(PyStr(<<"a", " ">> \o Chars_NormalBullet))
      [] text = "[]" -> Returned(PyList(<<>>))
      [] text = "[\"Normal Bullet\"]" -> Returned(PyList(<<"Normal Bullet">>))
      [] text = "{\"Normal\": 5}" -> Returned(PyDict("Normal" :> PyInt(5)))
      [] text = "{}" -> Returned(PyDict(EmptyMap))
      [] text = "{\"Normal Bullet\": {\"bold\": true, \"keep_with_next\": false}}" ->
            Returned(PyDict("Normal Bullet" :> PyDict([bold |-> TRUE, keep_with_next |-> FALSE])))
      [] text = "{\"List Paragraph Bullet Points\": {\"italic\": true}}" ->
            Returned(PyDict("List Paragraph Bullet Points" :> PyDict([italic |-> TRUE])))
      [] text = "{\"Heading 2\": {\"alignment\": \"Middle\", \"indent_hanging_cm\": 1, \"color\": 7}}" ->
            Returned(PyDict("Heading 2" :>
                PyDict([alignment |-> "Middle", indent_hanging_cm |-> 100, color |-> PyInt(7)])))
      [] text = "{\"Normal\": {\"color\": \"#GGGGGG\"}}" ->
            Returned(PyDict("Normal" :>
                PyDict([color |-> PyStr(<<"#", "G", "G", "G", "G", "G", "G">>)])))

\* The form field: absent (None) or a text
FormAbsent == PyNone
FormText(text) == [type |-> "str", text |-> text]

\* `if style_map_json:` - None and the empty text are falsy
FormGiven(field) == field.type = "str" /\ field.text # ""

RulesFor(field) == IF FormGiven(field) THEN json_loads(field.text).value ELSE DEFAULT_STYLE_MAP

\* lines 149-154: 400 on a text json.loads raises on
RejectStyleMap ==
    /\ pc = "request"
    /\ FormGiven(style_map_json)
    /\ json_loads(style_map_json.text).raised
    /\ pc' = "rejected"
    /\ UNCHANGED <<draft, style_map_json, rules, lines, idx, out_doc, counters, report, arg, result>>

\* lines 149-157: the rule table is chosen, then the handler awaits the upload
\* and gives the event loop the turn
ChooseRules ==
    /\ pc = "request"
    /\ ~(FormGiven(style_map_json) /\ json_loads(style_map_json.text).raised)
    /\ pc' = "reading"
    /\ rules' = RulesFor(style_map_json)
    /\ UNCHANGED <<draft, style_map_json, lines, idx, out_doc, counters, report, arg, result>>

\* lines 157-166, the upload read: 400 on a file name that ends in neither
\* .txt nor .docx
RejectFile ==
    /\ pc = "reading"
    /\ draft.ext \notin {"txt", "docx"}
    /\ pc' = "rejected"
    /\ UNCHANGED <<draft, style_map_json, rules, lines, idx, out_doc, counters, report, arg, result>>

\* A byte of the upload that is part of no UTF-8 sequence.  The data of a text
\* upload is held as the characters its well-formed sequences encode, with
\* this mark where such a byte lies.
InvalidByte == "INVALID"

\* data.decode("utf-8", errors="ignore"): undecodable bytes are dropped
decode(data) == SelectSeq(data, LAMBDA c : c # InvalidByte)

\* The line boundaries of str.splitlines(); "\r\n" counts as one
LineBoundaries ==
    {"\n", "\r", "U+000B", "\f", "U+001C", "U+001D", "U+001E", "U+0085", "U+2028", "U+2029"}

\* Position of the first line boundary of a text, Len(text) + 1 for none
FirstBreak(text) ==
    CHOOSE k \in 1..(Len(text) + 1) :
        /\ k = Len(text) + 1 \/ text[k] \in LineBoundaries
        /\ \A j \in 1..(k - 1) : text[j] \notin LineBoundaries

\* Number of characters the boundary at position k takes
BreakLen(text, k) ==
    IF k > Len(text) THEN 0
    ELSE IF text[k] = "\r" /\ k < Len(text) /\ text[k + 1] = "\n" THEN 2
    ELSE 1

\* str.splitlines(): the lines without their boundaries; no line for the
\* empty text, none after a final boundary
RECURSIVE splitlines(_)
RECURSIVE SplitAt(_, _)
SplitAt(text, k) ==
    <<SubSeq(text, 1, k - 1)>> \o splitlines(DropFirst(text, k - 1 + BreakLen(text, k)))

splitlines(text) == IF text = <<>> THEN <<>> ELSE SplitAt(text, FirstBreak(text))

\* lines 160-164: the lines of a text file, the paragraph texts of a document
ReadLines(d) == IF d.ext = "txt" THEN splitlines(decode(d.data)) ELSE d.paragraphs

\* lines 157-163, the upload read: Document(BytesIO(data)) raises on data that
\* is no document, and the request ends in a server error
OpenFails ==
    /\ pc = "reading"
    /\ draft.ext = "docx"
    /\ ~draft.opens
    /\ pc' = "unreadable"
    /\ UNCHANGED <<draft, style_map_json, rules, lines, idx, out_doc, counters, report, arg, result>>

\* lines 157-169, the upload read: an empty output document, the input
\* decoded into lines, empty counters
ReadDraft ==
    /\ pc = "reading"
    /\ draft.ext \in {"txt", "docx"}
    /\ draft.ext = "docx" => draft.opens
    /\ pc' = "building"
    /\ lines' = ReadLines(draft)
    /\ idx' = 0
    /\ out_doc' = <<>>
    /\ counters' = EmptyMap
    /\ UNCHANGED <<draft, style_map_json, rules, report, arg, result>>

\* What one iteration leaves: an exception ends the loop on the current line
Built(o) ==
    /\ out_doc' = o.doc
    /\ counters' = o.counters
    /\ pc' = IF o.raised THEN "failed" ELSE "building"
    /\ idx' = IF o.raised THEN idx ELSE idx + 1

\* lines 170-171: one iteration of the loop; an exception ends the request
BuildLine ==
    /\ pc = "building"
    /\ idx < Len(lines)
    /\ Built(_detect_and_style_line(out_doc, lines[idx + 1], rules, counters))
    /\ UNCHANGED <<draft, style_map_json, rules, lines, report, arg, result>>

\* lines 173-182: the document is streamed back with the counters as a header
Respond ==
    /\ pc = "building"
    /\ idx = Len(lines)
    /\ pc' = "done"
    /\ report' = counters
    /\ UNCHANGED <<draft, style_map_json, rules, lines, idx, out_doc, counters, arg, result>>

Next ==
    RejectStyleMap \/ ChooseRules \/ RejectFile \/ OpenFails \/ ReadDraft \/ BuildLine \/ Respond

-----------------------------------------------------------------------------
(* Requests                                                                *)

MaxLines == 3

SeqsUpTo(S, n) == UNION {[1..k -> S] : k \in 0..n}

\* One line for each branch of the classifier, a blank line, and a line
\* behind a byte-order-mark
SampleLines ==
    { <<"#", " ", "T">>,
      <<"H", "2", ":", "s">>,
      <<"1", ".", " ", "f">>,
      <<"-", " ", "p">>,
      <<"x">>,
      <<>>,
      <<BOM, "*", " ", "q">> }

\* The line endings of a text file, taken in turn
LineEndings == << <<"\n">>, <<"\r", "\n">>, <<"\r">> >>

\* The text file of the lines ls: line i followed by the i-th line ending
RECURSIVE FileOf(_, _)
FileOf(ls, i) ==
    IF i > Len(ls) THEN <<>>
    ELSE ls[i] \o LineEndings[((i - 1) % Len(LineEndings)) + 1] \o FileOf(ls, i + 1)

\* Text files whose last line has no ending, with a boundary inside a heading,
\* with other line boundaries, and with undecodable bytes
OddFiles ==
    { <<"x">>,
      <<"#", " ", "\n", "x", "\n">>,
      <<"-", " ", "p", "U+2028", "1", ".", " ", "f", "U+0085", "\f">>,
      <<InvalidByte, "#", InvalidByte, " ", "T", "\n", InvalidByte>>,
      <<BOM, BOM, "x", "\r", "\r", "\n">> }

StyleMapTexts ==
    { "", "{bad", "null", "5", "\"abc\"", "\"a Normal Bullet\"", "[]", "[\"Normal Bullet\"]", "{\"Normal\": 5}", "{}",
      "{\"Normal Bullet\": {\"bold\": true, \"keep_with_next\": false}}",
      "{\"List Paragraph Bullet Points\": {\"italic\": true}}",
      "{\"Heading 2\": {\"alignment\": \"Middle\", \"indent_hanging_cm\": 1, \"color\": 7}}",
      "{\"Normal\": {\"color\": \"#GGGGGG\"}}" }

StyleMapFields == {FormAbsent} \cup {FormText(t) : t \in StyleMapTexts}

\* Uploads: text files of up to MaxLines lines, documents of up to one
\* paragraph (its text may hold a line break), data that is no document, and a
\* file of neither kind
Drafts ==
    {[ext |-> "txt", data |-> FileOf(l, 1)] : l \in SeqsUpTo(SampleLines, MaxLines)}
    \cup {[ext |-> "txt", data |-> d] : d \in OddFiles}
    \cup {[ext |-> "docx", opens |-> TRUE, paragraphs |-> l] :
             l \in SeqsUpTo(SampleLines \cup {<<"#", " ", "T", "\n", "x">>}, 1)}
    \cup {[ext |-> "docx", opens |-> FALSE, paragraphs |-> <<>>], [ext |-> "pdf"]}

Init ==
    /\ pc = "request"
    /\ draft \in Drafts
    /\ style_map_json \in StyleMapFields
    /\ rules = PyNone
    /\ lines = <<>>
    /\ idx = 0
    /\ out_doc = <<>>
    /\ counters = EmptyMap
    /\ report = EmptyMap
    /\ arg = <<>>
    /\ result = <<>>

Spec == Init /\ [][Next]_vars

-----------------------------------------------------------------------------
(* Properties of the document builder, checked under Spec                  *)

RECURSIVE SumOver(_, _)
SumOver(cnt, keys) ==
    IF keys = {} THEN 0
    ELSE LET k == CHOOSE x \in keys : TRUE
         IN  cnt[k] + SumOver(cnt, keys \ {k})

CounterSum(cnt) == SumOver(cnt, DOMAIN cnt)

AllStyleNames ==
    {"Heading 1", "Heading 2", "Heading 3", "Heading 4", "Normal", "Normal Bullet",
     "List Paragraph Bullet Points"}

\* The input lines among the first n whose paragraph was added under style s
LinesStyled(s, n) == {i \in 1..n : StyleFor(Normalize(lines[i]), rules) = s}

C1_CountersPartition ==
    /\ CounterSum(counters) = idx
    /\ \A s \in AllStyleNames \cup DOMAIN counters :
          CounterGet(counters, s) = Cardinality(LinesStyled(s, idx))

C1_OneIncrementPerLine ==
    /\ \A s \in DOMAIN counters : s \in DOMAIN counters' /\ counters'[s] >= counters[s]
    /\ idx' = idx + 1 =>
          \E s \in DOMAIN counters' :
              /\ counters'[s] = CounterGet(counters, s) + 1
              /\ \A t \in DOMAIN counters' \ {s} : t \in DOMAIN counters /\ counters'[t] = counters[t]
    /\ idx' # idx + 1 => counters' = counters

\* C1: after any prefix of the lines is processed the counters sum to the
\* number of lines processed and each counter is the number of paragraphs
\* added under its style; a processed line raises exactly one counter by
\* exactly 1, and no counter ever decreases.
C1_UsageCounters == []C1_CountersPartition /\ [][C1_OneIncrementPerLine]_vars

\* Two lines of one style and the report of a finished request
C1_Witness ==
    /\ pc = "done"
    /\ idx = 2
    /\ \E s \in DOMAIN report : report[s] = 2

\* C2: one paragraph per input line, in input order, holding the cleaned text
\* of that line; a finished request has a paragraph for every line, and no
\* paragraph and no counter for an input of zero lines.
C2_OneParagraphPerLine ==
    /\ pc \in {"building", "done"} => Len(out_doc) = idx
    /\ pc = "failed" => Len(out_doc) \in {idx, idx + 1}
    /\ Len(out_doc) <= Len(lines)
    /\ \A i \in 1..Len(out_doc) : out_doc[i].text = CleanFor(Normalize(lines[i]))
    /\ pc = "done" => Len(out_doc) = Len(lines)
    /\ pc = "done" /\ lines = <<>> => out_doc = <<>> /\ report = EmptyMap

\* A finished two-line request whose paragraphs differ from each other and
\* from the raw lines they were cleaned from
C2_Witness ==
    /\ pc = "done"
    /\ Len(out_doc) = 2
    /\ out_doc[1].text # out_doc[2].text
    /\ out_doc[1].text # lines[1]
    /\ out_doc[2].text = <<>>

\* A form field that is given and is no JSON, or is JSON that is no mapping
\* from style name to attribute record
StructurallyInvalid(field) ==
    /\ FormGiven(field)
    /\ \/ json_loads(field.text).raised
       \/ json_loads(field.text).value.type # "dict"
       \/ \E k \in DOMAIN json_loads(field.text).value.items :
              json_loads(field.text).value.items[k].type # "dict"

\* C9: a structurally invalid rule-table representation is rejected before
\* any line is classified or styled and never fails inside the builder.
C9_InvalidRulesRejected ==
    StructurallyInvalid(style_map_json) => pc \in {"request", "reading", "rejected", "unreadable"}

-----------------------------------------------------------------------------
(* The classifier on single lines: SpecLines                               *)

MaxBody == 2

\* What a line starts with: every detected prefix and its near misses
Markers ==
    { <<>>,
      <<"H", "1", ":">>, <<"H", "2", ":">>, <<"H", "3", ":">>, <<"H", "4", ":">>,
      <<"#", " ">>, <<"#", "#", " ">>, <<"#", "#", "#", " ">>, <<"#", "#", "#", "#", " ">>,
      <<"#", "#", "#", "#", "#", " ">>, <<"#">>, <<"H", "5", ":">>, <<"h", "1", ":">>,
      <<"H", "1">>, <<" ", "#", " ">>,
      <<"1", ".", " ">>, <<"1", ")", " ">>, <<"1", "2", ".", " ">>, <<"a", ".", " ">>,
      <<"Z", ")", " ">>, <<"1", ".", "\t">>, <<"a", ")", "\t">>, <<"1", ".">>,
      <<"a", "b", ".", " ">>, <<"1", ":", " ">>, <<"H", ".", " ">>,
      <<"U+0663", ".", " ">>, <<"1", "U+FF12", ")", "U+3000">>, <<"a", ".", "U+1680">>,
      <<"-", " ">>, <<"*", " ">>, <<BULLET, " ">>, <<"-", "\t">>, <<"-">>, <<"+", " ">>,
      <<" ", "-", " ">> }

BodyChars == {" ", "x", "\r", "\n", "U+2003"}

BomRuns == {<<>>, <<BOM>>, <<BOM, BOM>>}

SingleLines ==
    {b \o m \o t : b \in BomRuns, m \in Markers, t \in SeqsUpTo(BodyChars, MaxBody)}

\* The built-in table, the empty table, a table with each bullet style alone,
\* a JSON list and a JSON string
LineStyleMapFields ==
    { FormAbsent, FormText("{}"), FormText("[]"), FormText("\"a Normal Bullet\""),
      FormText("{\"Normal Bullet\": {\"bold\": true, \"keep_with_next\": false}}"),
      FormText("{\"List Paragraph Bullet Points\": {\"italic\": true}}") }

\* The upload that hands the classifier the one line l: a text file of that
\* line, or a document of one paragraph when l holds a line boundary
Carrying(l) ==
    IF \E i \in 1..Len(l) : l[i] \in LineBoundaries
    THEN [ext |-> "docx", opens |-> TRUE, paragraphs |-> <<l>>]
    ELSE [ext |-> "txt", data |-> l \o <<"\n">>]

InitLines ==
    /\ pc = "request"
    /\ draft \in {Carrying(l) : l \in SingleLines}
    /\ style_map_json \in LineStyleMapFields
    /\ rules = PyNone
    /\ lines = <<>>
    /\ idx = 0
    /\ out_doc = <<>>
    /\ counters = EmptyMap
    /\ report = EmptyMap
    /\ arg = <<>>
    /\ result = <<>>

NextLines == ChooseRules \/ ReadDraft \/ BuildLine \/ Respond

SpecLines == InitLines /\ [][NextLines]_vars

\* The line of the request has been through the classifier: its paragraph is
\* in the document
LineClassified == pc \in {"building", "done", "failed"} /\ Len(out_doc) = 1

\* The line was also styled and counted
LineCounted == pc \in {"building", "done"} /\ idx = 1

DigitChars == <<"1", "2", "3", "4">>
HeadingNames == <<"Heading 1", "Heading 2", "Heading 3", "Heading 4">>
TagPrefix(n) == <<"H", DigitChars[n], ":">>
HashPrefix(n) == [i \in 1..n |-> "#"] \o <<" ">>

\* C3: a line that after normalization begins with "Hn:" or with n "#" and a
\* space (n in 1..4) becomes a paragraph of style "Heading n" whose text is the
\* line without that prefix, trimmed.
C3_HeadingPrefixes ==
    LineClassified =>
        \A n \in 1..4 : \A pref \in {TagPrefix(n), HashPrefix(n)} :
            startswith(Normalize(lines[1]), pref) =>
                /\ out_doc[1].text = strip(DropFirst(Normalize(lines[1]), Len(pref)))
                /\ LineCounted => counters = (HeadingNames[n] :> 1)

\* A level-3 hash heading behind a byte-order-mark, with text to trim
C3_Witness ==
    /\ LineCounted
    /\ lines[1] = <<BOM, "#", "#", "#", " ", " ", "x">>
    /\ out_doc[1].text = <<"x">>
    /\ counters = ("Heading 3" :> 1)

ClaimBulletPrefixes == { <<"-", " ">>, <<"*", " ">>, <<BULLET, " ">> }

\* C4: a line that after normalization begins with "- ", "* " or the bullet
\* character and a space becomes a paragraph of style "Normal Bullet" when the
\* rule table has that key and "List Paragraph Bullet Points" otherwise, its
\* text the line without its first two characters, trimmed.
C4_BulletStyle ==
    (/\ LineClassified
     /\ rules.type = "dict"
     /\ \E pref \in ClaimBulletPrefixes : startswith(Normalize(lines[1]), pref)) =>
        /\ out_doc[1].text = strip(DropFirst(Normalize(lines[1]), 2))
        /\ LineCounted =>
              counters = ((IF "Normal Bullet" \in DOMAIN rules.items
                           THEN "Normal Bullet" ELSE "List Paragraph Bullet Points") :> 1)

\* A bullet line under the empty table: the fallback style, which the table
\* lacks too
C4_Witness ==
    /\ LineCounted
    /\ rules = PyDict(EmptyMap)
    /\ lines[1] = <<"*", " ", "x", " ">>
    /\ out_doc[1].text = <<"x">>
    /\ counters = ("List Paragraph Bullet Points" :> 1)

\* The numbered-list pattern as the claim words it: digits, or a single
\* letter, then "." or ")", then a space character
ClaimNumbered(text) ==
    \/ \E k \in 1..Len(text) :
          /\ \A j \in 1..k : text[j] \in Digits
          /\ Len(text) >= k + 2 /\ text[k + 1] \in {".", ")"} /\ text[k + 2] = " "
    \/ Len(text) >= 3 /\ text[1] \in Letters /\ text[2] \in {".", ")"} /\ text[3] = " "

ClaimNoPattern(text) ==
    /\ \A n \in 1..4 : ~startswith(text, TagPrefix(n)) /\ ~startswith(text, HashPrefix(n))
    /\ ~ClaimNumbered(text)
    /\ \A pref \in ClaimBulletPrefixes : ~startswith(text, pref)

\* C5: a line that matches none of the detection patterns becomes a "Normal"
\* paragraph whose text is the normalized line, unchanged.
C5_DefaultUnchanged ==
    (LineClassified /\ ClaimNoPattern(Normalize(lines[1]))) =>
        /\ out_doc[1].text = Normalize(lines[1])
        /\ LineCounted => counters = ("Normal" :> 1)

\* C6: normalizing a line twice gives what normalizing it once gives.
C6_NormalizeIdempotent ==
    \A i \in 1..Len(lines) :
        Normalize(Normalize(lines[i])) = Normalize(lines[i])

-----------------------------------------------------------------------------
(* The colour resolver called directly: SpecRgb                            *)

\* Two characters of a "#RRGGBB" expression: hex pairs, and pairs int(_, 16)
\* takes or refuses for other reasons
HexPairs ==
    { <<"0", "0">>, <<"F", "F">>, <<"a", "3">>, <<"5", "2">>, <<"G", "G">>, <<"0", "G">>,
      <<" ", "5">>, <<"+", "f">>, <<"-", "1">>, <<"U+FF11", "U+FF12">>, <<"U+001F", "5">> }

\* One component of an "RGB(r,g,b)" expression
ComponentTexts ==
    { <<"1">>, <<"9", "5">>, <<"2", "5", "5">>, <<"2", "5", "6">>, <<"-", "1">>,
      <<" ", "7", " ">>, <<"b", "a", "d">>, <<>>, <<"U+0663">>, <<"U+3000", "2", "U+001F">> }

RgbHeads == { <<"R", "G", "B", "(">>, <<"r", "g", "b", "(">> }
RgbTails == { <<")">>, <<"x">>, <<>> }

ColorStrings ==
    {<<"#">> \o r \o g \o b : r \in HexPairs, g \in HexPairs, b \in HexPairs}
    \cup {h \o r \o <<",">> \o g \o <<",">> \o b \o t :
            h \in RgbHeads, r \in ComponentTexts, g \in ComponentTexts,
            b \in ComponentTexts, t \in RgbTails}
    \cup {h \o r \o <<",">> \o g \o t : h \in RgbHeads, r \in ComponentTexts,
            g \in ComponentTexts, t \in RgbTails}
    \cup { Chars_0052A3, Chars_RGB_1_95_95, Chars_Text1, <<>>, <<"#">>, <<"#", "F", "F", "F">>,
           <<"#", "0", "0", "5", "2", "A", "3", "0">>, <<"R", "G", "B">>, <<"R", "G", "B", "(">>,
           <<"R", "G", "B", "(", "b", "a", "d", ")">>,
           <<"R", "G", "B", "(", "1", ",", "2", ",", "3", ",", "4", ")">>,
           <<"0", "0", "5", "2", "A", "3", "0">> }

ColorExpressions == {PyStr(cs) : cs \in ColorStrings} \cup {PyInt(7), PyNone}

InitRgb ==
    /\ pc = "call_rgb"
    /\ arg \in ColorExpressions
    /\ result = <<>>
    /\ draft = [ext |-> "txt", data |-> <<>>]
    /\ style_map_json = FormAbsent
    /\ rules = PyNone
    /\ lines = <<>>
    /\ idx = 0
    /\ out_doc = <<>>
    /\ counters = EmptyMap
    /\ report = EmptyMap

\* lines 68-78: one call of _rgb
CallRgb ==
    /\ pc = "call_rgb"
    /\ result' = _rgb(arg)
    /\ pc' = "returned_rgb"
    /\ UNCHANGED <<draft, style_map_json, rules, lines, idx, out_doc, counters, report, arg>>

SpecRgb == InitRgb /\ [][CallRgb]_vars

\* C7: the colour resolver returns a triple for every colour expression and
\* never raises.
C7_RgbTotal ==
    pc = "returned_rgb" =>
        /\ ~result.raised
        /\ result.value \in (0..255) \X (0..255) \X (0..255)

\* 0-9, a-f, A-F
IsHexDigit(c) ==
    \/ \E i \in 1..10 : c = AsciiDigits[i]
    \/ \E i \in 1..6 : c = HexLetters[i] \/ c = HexUpper[i]

\* "#" followed by exactly six hexadecimal digits
ClaimHexForm(cs) ==
    Len(cs) = 7 /\ cs[1] = "#" /\ \A i \in 2..7 : IsHexDigit(cs[i])

\* A decimal integer: digits, with an optional sign and surrounding blanks
ClaimDecimal(part) ==
    LET t == strip(part)
        u == IF t # <<>> /\ t[1] \in {"+", "-"} THEN Tail(t) ELSE t
    IN  u # <<>> /\ \A i \in 1..Len(u) : u[i] \in Digits

\* "RGB(r,g,b)" with three decimal integers, in either letter case
ClaimRgbForm(cs) ==
    /\ Len(cs) >= 5
    /\ upper(SubSeq(cs, 1, 4)) = <<"R", "G", "B", "(">>
    /\ cs[Len(cs)] = ")"
    /\ LET parts == split(SubSeq(cs, 5, Len(cs) - 1), ",")
       IN  Len(parts) = 3 /\ \A i \in 1..3 : ClaimDecimal(parts[i])

\* C8: a colour expression of neither form resolves to black.
C8_OtherwiseBlack ==
    (/\ pc = "returned_rgb"
     /\ ~(arg.type = "str" /\ (ClaimHexForm(arg.chars) \/ ClaimRgbForm(arg.chars)))) =>
        result = Returned(<<0, 0, 0>>)

-----------------------------------------------------------------------------
(* The paragraph styler called directly: SpecStyler                        *)

MaxRuns == 2

\* The attribute keys the styler reads, and two keys it does not
ParagraphKeys ==
    {"alignment", "line_spacing", "spacing_before_pt", "spacing_after_pt", "indent_left_cm",
     "indent_hanging_cm", "keep_with_next", "keep_lines_together"}
RunKeys == {"font_name", "font_size_pt", "bold", "italic", "color"}
UnknownKeys == {"based_on", "numbering_level"}

\* Values for every key: one set recognised and truthy, one with an alignment
\* the styler does not know, false flags and a colour _rgb raises on
Palettes ==
    << [alignment |-> "Center", line_spacing |-> 115, spacing_before_pt |-> 1200,
        spacing_after_pt |-> 600, indent_left_cm |-> 127, indent_hanging_cm |-> 100,
        keep_with_next |-> TRUE, keep_lines_together |-> TRUE,
        font_name |-> "Century Gothic", font_size_pt |-> 1050, bold |-> TRUE, italic |-> TRUE,
        color |-> PyStr(Chars_0052A3), based_on |-> "Normal", numbering_level |-> 1],
       [alignment |-> "Middle", line_spacing |-> 100, spacing_before_pt |-> 0,
        spacing_after_pt |-> 29, indent_left_cm |-> 113, indent_hanging_cm |-> 57,
        keep_with_next |-> FALSE, keep_lines_together |-> FALSE,
        font_name |-> "Arial", font_size_pt |-> 900, bold |-> FALSE, italic |-> FALSE,
        color |-> PyStr(<<"#", "G", "G", "G", "G", "G", "G">>), based_on |-> "Normal",
        numbering_level |-> 2] >>

StyleRecords ==
    {PyDict([k \in pk \cup rk \cup uk |-> Palettes[j][k]]) :
        pk \in SUBSET ParagraphKeys, rk \in SUBSET RunKeys, uk \in {{}, UnknownKeys},
        j \in 1..Len(Palettes)}

\* A run that an earlier styling has set every font attribute of
SetRun(text) ==
    [text |-> text, name |-> <<"Times">>, size |-> <<Pt(800)>>, bold |-> <<TRUE>>,
     italic |-> <<FALSE>>, color |-> <<<<1, 95, 95>>>>]

\* A paragraph that carries a value in every attribute, with n runs
StyledParagraph(n, keep) ==
    [text |-> [i \in 1..n |-> "x"],
     alignment |-> <<"RIGHT">>, line_spacing |-> <<200>>, space_before |-> <<Pt(300)>>,
     space_after |-> <<Pt(400)>>, left_indent |-> <<Cm(50)>>,
     first_line_indent |-> <<Cm(25)>>, keep_with_next |-> <<keep>>, keep_together |-> <<keep>>,
     runs |-> [i \in 1..n |-> IF i = 1 THEN SetRun(<<"x">>) ELSE NewRun(<<"x">>)]]

\* Paragraphs to style: as add_paragraph makes them (blank and not), and
\* styled ones with up to MaxRuns runs
PriorParagraphs ==
    { NewParagraph(<<>>), NewParagraph(<<"x">>), StyledParagraph(1, FALSE) }
    \cup { StyledParagraph(n, TRUE) : n \in 1..MaxRuns }

InitStyler ==
    /\ pc = "call_style"
    /\ arg \in {[p |-> p, spec |-> r] : p \in PriorParagraphs, r \in StyleRecords}
    /\ result = <<>>
    /\ draft = [ext |-> "txt", data |-> <<>>]
    /\ style_map_json = FormAbsent
    /\ rules = PyNone
    /\ lines = <<>>
    /\ idx = 0
    /\ out_doc = <<>>
    /\ counters = EmptyMap
    /\ report = EmptyMap

\* lines 80-99: one call of _apply_paragraph_style
CallStyle ==
    /\ pc = "call_style"
    /\ result' = _apply_paragraph_style(arg.p, arg.spec)
    /\ pc' = "returned_style"
    /\ UNCHANGED <<draft, style_map_json, rules, lines, idx, out_doc, counters, report, arg>>

SpecStyler == InitStyler /\ [][CallStyle]_vars

Present(key) == key \in DOMAIN arg.spec.items
Given(key) == arg.spec.items[key]

\* The run the styler works on at position i: the paragraph's own, or the
\* empty run it adds to a paragraph without runs
RunBefore(i) == IF arg.p.runs = <<>> THEN NewRun(<<>>) ELSE arg.p.runs[i]

ParagraphFrame(before, after) ==
    /\ ~Present("line_spacing") => after.line_spacing = before.line_spacing
    /\ ~Present("spacing_before_pt") => after.space_before = before.space_before
    /\ ~Present("spacing_after_pt") => after.space_after = before.space_after
    /\ ~Present("indent_left_cm") => after.left_indent = before.left_indent
    /\ ~Present("indent_hanging_cm") => after.first_line_indent = before.first_line_indent
    /\ (~Present("alignment") \/ Given("alignment") \notin {"Left", "Center", "Right", "Justify"})
           => after.alignment = before.alignment
    /\ Present("indent_hanging_cm") => after.first_line_indent = <<-Cm(Given("indent_hanging_cm"))>>
    /\ after.keep_with_next \in {before.keep_with_next, <<TRUE>>}
    /\ after.keep_together \in {before.keep_together, <<TRUE>>}
    /\ ~(Present("keep_with_next") /\ Given("keep_with_next") = TRUE)
           => after.keep_with_next = before.keep_with_next
    /\ ~(Present("keep_lines_together") /\ Given("keep_lines_together") = TRUE)
           => after.keep_together = before.keep_together
    /\ after.text = before.text

RunFrame(before, after) ==
    /\ ~Present("font_name") => after.name = before.name
    /\ ~Present("font_size_pt") => after.size = before.size
    /\ ~Present("bold") => after.bold = before.bold
    /\ ~Present("italic") => after.italic = before.italic
    /\ ~Present("color") => after.color = before.color
    /\ after.text = before.text

\* The record without its unknown keys styles the paragraph the same way
UnknownKeysIgnored ==
    _apply_paragraph_style(arg.p,
        PyDict([k \in DOMAIN arg.spec.items \ UnknownKeys |-> arg.spec.items[k]])) = result

\* C10: styling changes only the attributes whose keys the record has: an
\* absent key keeps the prior value, paragraph-level and run-level; an
\* alignment outside Left, Center, Right, Justify keeps the alignment; a
\* hanging indent is stored negated; the keep flags are only ever set to true;
\* unknown keys have no effect; the empty record changes no attribute.
C10_StylerFrame ==
    pc = "returned_style" =>
        /\ ParagraphFrame(arg.p, result.value)
        /\ Len(result.value.runs) = IF arg.p.runs = <<>> THEN 1 ELSE Len(arg.p.runs)
        /\ \A i \in 1..Len(result.value.runs) : RunFrame(RunBefore(i), result.value.runs[i])
        /\ UnknownKeysIgnored
        /\ DOMAIN arg.spec.items \subseteq UnknownKeys =>
              /\ [result.value EXCEPT !.runs = <<>>] = [arg.p EXCEPT !.runs = <<>>]
              /\ \A i \in 1..Len(result.value.runs) : result.value.runs[i] = RunBefore(i)

\* A paragraph with both keep flags set, two runs and a first-line indent,
\* styled without failure by a record with a false keep flag, an unknown
\* alignment, a hanging indent and a bold flag, but no font name
C10_Witness ==
    /\ pc = "returned_style"
    /\ ~result.raised
    /\ arg.p.keep_with_next = <<TRUE>>
    /\ Len(arg.p.runs) = 2
    /\ Present("keep_with_next") /\ Given("keep_with_next") = FALSE
    /\ Present("alignment") /\ Given("alignment") = "Middle"
    /\ Present("indent_hanging_cm") /\ Given("indent_hanging_cm") = 57
    /\ ~Present("font_name") /\ Present("bold")
    /\ result.value.keep_with_next = <<TRUE>>
    /\ result.value.alignment = <<"RIGHT">>
    /\ result.value.first_line_indent = <<-205199>>
    /\ result.value.runs[1].name = <<"Times">>
    /\ result.value.runs[2].bold = <<FALSE>>

====
